---------------------------- MODULE Spec2Model ----------------------------
(***************************************************************************)
(* The calculator API of src/calculator.py: request validation, the        *)
(* four-way arithmetic dispatch of calculate, its exception mapping, and    *)
(* GET /operations.                                                         *)
(*                                                                          *)
(* Python's float is an IEEE-754 binary64.  It is modelled by a binary      *)
(* floating-point format of the same structure (signed zeros, subnormals,   *)
(* normals, infinities, NaN, round-to-nearest-even) with a narrow           *)
(* significand and exponent, so that rounding, overflow and underflow       *)
(* happen inside the model.                                                 *)
(***************************************************************************)
EXTENDS Integers, Sequences, FiniteSets, TLC

(***************************************************************************)
(* Bounds of the model.                                                     *)
(***************************************************************************)
\* significand width in bits, hidden bit included (53 in binary64)
PrecBits == 2
\* number of binades above the subnormal one (2046 in binary64)
ExpRange == 3
\* number of request-handling workers that run concurrently
NumWorkers == 2

(***************************************************************************)
(* Floating point.  A finite value is a sign and a magnitude counted in     *)
(* units of the smallest subnormal; the real value of magnitude m is        *)
(* m / One.                                                                 *)
(***************************************************************************)
RECURSIVE Pow2(_)
Pow2(n) == IF n = 0 THEN 1 ELSE 2 * Pow2(n - 1)

\* the magnitude of 1.0
One == Pow2(ExpRange - 1)
\* the smallest normal magnitude; below it the spacing no longer shrinks
MinNormal == Pow2(PrecBits - 1)
\* the largest finite magnitude
MaxFinite == (Pow2(PrecBits) - 1) * Pow2(ExpRange)
\* the magnitude one spacing above MaxFinite: a value rounding here overflows
Overflow == Pow2(PrecBits) * Pow2(ExpRange)

Magnitudes == { m * Pow2(e) : m \in 0..(Pow2(PrecBits) - 1), e \in 0..ExpRange }

Fin(s, m) == [k |-> "fin", s |-> s, m |-> m]
Inf(s) == [k |-> "inf", s |-> s, m |-> 0]
NaN == [k |-> "nan", s |-> 0, m |-> 0]

\* every value a Python float can take in the model's format
Floats == { Fin(s, m) : s \in {0, 1}, m \in Magnitudes }
          \cup { Inf(0), Inf(1), NaN }

IsNaN(x) == x.k = "nan"
IsInf(x) == x.k = "inf"
IsFinite(x) == x.k = "fin"
IsZero(x) == x.k = "fin" /\ x.m = 0

\* the signed magnitude of a finite value, in units
Signed(x) == IF x.s = 1 THEN 0 - x.m ELSE x.m
Abs(n) == IF n < 0 THEN 0 - n ELSE n
Xor(s, t) == IF s = t THEN 0 ELSE 1

\* -x
Neg(x) == IF IsNaN(x) THEN NaN ELSE [x EXCEPT !.s = 1 - x.s]

\* Python's x == y on floats: NaN equals nothing, -0.0 equals 0.0
PyEq(x, y) ==
    /\ ~IsNaN(x)
    /\ ~IsNaN(y)
    /\ \/ x = y
       \/ IsZero(x) /\ IsZero(y)

\* the exponent of the binade of the nonnegative rational n/d: the least e,
\* from e up, such that n/d is below 2^(PrecBits + e)
RECURSIVE Exponent(_, _, _)
Exponent(n, d, e) ==
    IF n < Pow2(PrecBits + e) * d THEN e ELSE Exponent(n, d, e + 1)

\* the nonnegative rational n/d rounded to nearest, ties to even, with sign s
Round(s, n, d) ==
    IF 2 * n >= (MaxFinite + Overflow) * d THEN Inf(s)
    ELSE LET ulp == Pow2(Exponent(n, d, 0))
             m == n \div (d * ulp)
             twice == 2 * (n - m * d * ulp)
             up == twice > d * ulp \/ (twice = d * ulp /\ m % 2 = 1)
         IN Fin(s, (IF up THEN m + 1 ELSE m) * ulp)

\* a + b on floats
FloatAdd(a, b) ==
    IF IsNaN(a) \/ IsNaN(b) THEN NaN
    ELSE IF IsInf(a) /\ IsInf(b) THEN (IF a.s = b.s THEN a ELSE NaN)
    ELSE IF IsInf(a) THEN a
    ELSE IF IsInf(b) THEN b
    ELSE LET sum == Signed(a) + Signed(b)
         IN IF sum = 0
            THEN Fin(IF a.s = 1 /\ b.s = 1 THEN 1 ELSE 0, 0)
            ELSE Round(IF sum < 0 THEN 1 ELSE 0, Abs(sum), 1)

\* a - b on floats
FloatSub(a, b) == FloatAdd(a, Neg(b))

\* a * b on floats
FloatMul(a, b) ==
    IF IsNaN(a) \/ IsNaN(b) THEN NaN
    ELSE IF (IsInf(a) /\ IsZero(b)) \/ (IsZero(a) /\ IsInf(b)) THEN NaN
    ELSE IF IsInf(a) \/ IsInf(b) THEN Inf(Xor(a.s, b.s))
    ELSE Round(Xor(a.s, b.s), a.m * b.m, One)

\* a / b on floats, for b that is not a zero
FloatDiv(a, b) ==
    IF IsNaN(a) \/ IsNaN(b) THEN NaN
    ELSE IF IsInf(a) /\ IsInf(b) THEN NaN
    ELSE IF IsInf(a) THEN Inf(Xor(a.s, b.s))
    ELSE IF IsInf(b) THEN Fin(Xor(a.s, b.s), 0)
    ELSE Round(Xor(a.s, b.s), a.m * One, b.m)

(***************************************************************************)
(* Data model (lines 15-69).                                                *)
(***************************************************************************)
\* the values of the OperationType enum
OperationType == {"add", "subtract", "multiply", "divide"}

\* placeholders for "nothing here", of the same shape as the real values
NoFloat == [k |-> "none", s |-> 0, m |-> 0]
\* a JSON string that is no number, such as "x"
NotANumber == [k |-> "str", s |-> 0, m |-> 0]
\* a field the JSON body does not contain
Absent == "<absent>"
AbsentNumber == [k |-> "absent", s |-> 0, m |-> 0]

\* what a JSON body may carry in the operation field, and in num1 / num2
RawOperations == OperationType \cup {"modulo", "ADD", Absent}
RawNumbers == Floats \cup {NotANumber, AbsentNumber}

RawBody(op, a, b) == [route |-> "calculate", operation |-> op, num1 |-> a, num2 |-> b]
OperationsCall == [route |-> "operations", operation |-> Absent,
                   num1 |-> AbsentNumber, num2 |-> AbsentNumber]
NoRaw == [route |-> "none", operation |-> Absent,
          num1 |-> AbsentNumber, num2 |-> AbsentNumber]

\* every request the HTTP surface can receive
RawRequests ==
    { RawBody(op, a, b) : op \in RawOperations, a \in RawNumbers, b \in RawNumbers }
    \cup {OperationsCall}

\* a validated request object, as calculate receives it
CalculationRequest(op, a, b) == [operation |-> op, num1 |-> a, num2 |-> b]
NoRequest == [operation |-> Absent, num1 |-> NoFloat, num2 |-> NoFloat]

\* validation that checks the operands alone
Validates_numbers_only(r) ==
    /\ r.num1 \in Floats
    /\ r.num2 \in Floats

\* the validation the CalculationRequest model declares: operation is a value
\* of OperationType, num1 and num2 are floats (infinities and NaN included)
Validates(r) ==
    /\ r.operation \in OperationType
    /\ r.num1 \in Floats
    /\ r.num2 \in Floats

NoEntries == << >>
NoException == [cls |-> "none", status_code |-> 0, detail |-> ""]
NoResponse ==
    [kind |-> "none", status_code |-> 0, operation |-> Absent, num1 |-> NoFloat,
     num2 |-> NoFloat, result |-> NoFloat, detail |-> "", entries |-> NoEntries]

\* the success body, sent with the status_code the route declares
CalculationResponse(op, a, b, r) ==
    [kind |-> "success", status_code |-> 200, operation |-> op, num1 |-> a,
     num2 |-> b, result |-> r, detail |-> "", entries |-> NoEntries]

\* the response the framework builds from a raised HTTPException
ErrorResponse(code, text) ==
    [NoResponse EXCEPT !.kind = "error", !.status_code = code, !.detail = text]

\* the framework's answer to a body that fails validation
ValidationErrorResponse == ErrorResponse(422, "validation error")

ZeroDivisionError(msg) == [cls |-> "ZeroDivisionError", status_code |-> 0, detail |-> msg]
\* raised by an arithmetic operator given a str
TypeError(msg) == [cls |-> "TypeError", status_code |-> 0, detail |-> msg]
\* raised by CalculationResponse when a field is no float
ValidationError(msg) == [cls |-> "ValidationError", status_code |-> 0, detail |-> msg]
HTTPException(code, text) == [cls |-> "HTTPException", status_code |-> code, detail |-> text]

\* str(e)
StrOf(e) ==
    IF e.cls = "HTTPException" THEN ToString(e.status_code) \o ": " \o e.detail
    ELSE e.detail

(***************************************************************************)
(* Calculator functions (lines 73-131).  Each yields what the call does:    *)
(* a returned float, or a raised exception.                                 *)
(***************************************************************************)
Return(v) == [raised |-> FALSE, value |-> v, exc |-> NoException]
Raise(e) == [raised |-> TRUE, value |-> NoFloat, exc |-> e]

IsFloat(v) == v.k \in {"fin", "inf", "nan"}
TypeName(v) == IF IsFloat(v) THEN "float" ELSE "str"
\* the TypeError of a binary operator that its operands do not support
Unsupported(sym, a, b) ==
    TypeError("unsupported operand type(s) for " \o sym \o ": '" \o TypeName(a)
              \o "' and '" \o TypeName(b) \o "'")

\* add with its first operand used twice
add_first_twice(a, b) ==
    IF IsFloat(a) /\ IsFloat(b) THEN Return(FloatAdd(a, a))
    ELSE Raise(Unsupported("+", a, b))

add(a, b) ==
    IF IsFloat(a) /\ IsFloat(b) THEN Return(FloatAdd(a, b))
    ELSE IF ~IsFloat(a) /\ ~IsFloat(b) THEN Return(NotANumber)
    ELSE IF ~IsFloat(a)
         THEN Raise(TypeError("can only concatenate str (not \"float\") to str"))
    ELSE Raise(Unsupported("+", a, b))

subtract(a, b) ==
    IF IsFloat(a) /\ IsFloat(b) THEN Return(FloatSub(a, b))
    ELSE Raise(Unsupported("-", a, b))

\* multiply that adds
multiply_as_add(a, b) ==
    IF IsFloat(a) /\ IsFloat(b) THEN Return(FloatAdd(a, b))
    ELSE Raise(TypeError("can't multiply sequence by non-int of type 'float'"))

multiply(a, b) ==
    IF IsFloat(a) /\ IsFloat(b) THEN Return(FloatMul(a, b))
    ELSE IF IsFloat(a) \/ IsFloat(b)
         THEN Raise(TypeError("can't multiply sequence by non-int of type 'float'"))
    ELSE Raise(TypeError("can't multiply sequence by non-int of type 'str'"))

\* divide whose guard misses -0.0: the quotient by a zero is an infinity, or
\* NaN for 0 / 0 and NaN / 0
divide_positive_zero_only(a, b) ==
    IF b = Fin(0, 0) THEN Raise(ZeroDivisionError("Cannot divide by zero"))
    ELSE IF ~(IsFloat(a) /\ IsFloat(b)) THEN Raise(Unsupported("/", a, b))
    ELSE IF IsZero(b)
         THEN Return(IF IsNaN(a) \/ IsZero(a) THEN NaN ELSE Inf(Xor(a.s, b.s)))
    ELSE Return(FloatDiv(a, b))

divide(a, b) ==
    IF PyEq(b, Fin(0, 0)) THEN Raise(ZeroDivisionError("Cannot divide by zero"))
    ELSE IF IsFloat(a) /\ IsFloat(b) THEN Return(FloatDiv(a, b))
    ELSE Raise(Unsupported("/", a, b))

(***************************************************************************)
(* GET /operations (lines 162-174).  The symbols of multiply and divide     *)
(* are written in ASCII here.                                               *)
(***************************************************************************)
\* the listing with the entry of divide missing and that of add twice
get_operations_stale ==
    << [operation |-> "add", description |-> "Addition (a + b)", symbol |-> "+"],
       [operation |-> "add", description |-> "Addition (a + b)", symbol |-> "+"],
       [operation |-> "subtract", description |-> "Subtraction (a - b)", symbol |-> "-"],
       [operation |-> "multiply", description |-> "Multiplication (a x b)", symbol |-> "x"] >>

get_operations ==
    << [operation |-> "add", description |-> "Addition (a + b)", symbol |-> "+"],
       [operation |-> "subtract", description |-> "Subtraction (a - b)", symbol |-> "-"],
       [operation |-> "multiply", description |-> "Multiplication (a x b)", symbol |-> "x"],
       [operation |-> "divide", description |-> "Division (a / b)", symbol |-> "/"] >>

OperationsResponse ==
    [NoResponse EXCEPT !.kind = "operations", !.status_code = 200,
                       !.entries = get_operations]

(***************************************************************************)
(* State: one frame per worker.                                             *)
(***************************************************************************)
VARIABLES
    pc,        \* where each worker is: idle, received, validated, computed, raised, done
    raw,       \* the request each worker received
    request,   \* the validated request calculate was called with
    branch,    \* the branch of the dispatch each worker took
    result,    \* calculate's local variable result
    exc,       \* the exception in flight in calculate
    resp       \* the response each worker produced

vars == <<pc, raw, request, branch, result, exc, resp>>

Workers == 1..NumWorkers
\* the worker of the single-worker specifications
MainWorker == 1

Init ==
    /\ pc = [i \in Workers |-> "idle"]
    /\ raw = [i \in Workers |-> NoRaw]
    /\ request = [i \in Workers |-> NoRequest]
    /\ branch = [i \in Workers |-> "none"]
    /\ result = [i \in Workers |-> NoFloat]
    /\ exc = [i \in Workers |-> NoException]
    /\ resp = [i \in Workers |-> NoResponse]

\* a request, one of requests, arrives and is handed to idle worker i
Receive(i, requests) ==
    /\ pc[i] = "idle"
    /\ \E r \in requests : raw' = [raw EXCEPT ![i] = r]
    /\ pc' = [pc EXCEPT ![i] = "received"]
    /\ UNCHANGED <<request, branch, result, exc, resp>>

\* GET /operations
GetOperations(i) ==
    /\ pc[i] = "received"
    /\ raw[i].route = "operations"
    /\ resp' = [resp EXCEPT ![i] = OperationsResponse]
    /\ pc' = [pc EXCEPT ![i] = "done"]
    /\ UNCHANGED <<raw, request, branch, result, exc>>

\* the body of POST /calculate is validated into a CalculationRequest, or
\* answered with 422 before calculate is called
Validate(i) ==
    /\ pc[i] = "received"
    /\ raw[i].route = "calculate"
    /\ IF Validates(raw[i])
       THEN /\ request' = [request EXCEPT ![i] =
                   CalculationRequest(raw[i].operation, raw[i].num1, raw[i].num2)]
            /\ pc' = [pc EXCEPT ![i] = "validated"]
            /\ UNCHANGED resp
       ELSE /\ resp' = [resp EXCEPT ![i] = ValidationErrorResponse]
            /\ pc' = [pc EXCEPT ![i] = "done"]
            /\ UNCHANGED request
    /\ UNCHANGED <<raw, branch, result, exc>>

\* calculate called as a function, with a request object, one of requests,
\* that did not pass through validation
Call(i, requests) ==
    /\ pc[i] = "idle"
    /\ \E req \in requests : request' = [request EXCEPT ![i] = req]
    /\ pc' = [pc EXCEPT ![i] = "validated"]
    /\ UNCHANGED <<raw, branch, result, exc, resp>>

\* the request kept in one place that every frame reads
request_shared(i) == request[CHOOSE j \in Workers : request[j] # NoRequest]

\* the request bound in worker i's frame of calculate
request_of(i) == request[i]

\* the branch of the if / elif chain that request r takes
BranchOf(r) ==
    IF r.operation = "add" THEN "add"
    ELSE IF r.operation = "subtract" THEN "subtract"
    ELSE IF r.operation = "multiply" THEN "multiply"
    ELSE IF r.operation = "divide" THEN "divide"
    ELSE "fallback"

\* the chain with the multiply branch calling add
Route_multiply_adds(r) ==
    IF r.operation = "add" THEN add(r.num1, r.num2)
    ELSE IF r.operation = "subtract" THEN subtract(r.num1, r.num2)
    ELSE IF r.operation = "multiply" THEN add(r.num1, r.num2)
    ELSE IF r.operation = "divide" THEN divide(r.num1, r.num2)
    ELSE Raise(HTTPException(400, "Unsupported operation: " \o r.operation))

\* what the if / elif chain does with request r
Route(r) ==
    IF r.operation = "add" THEN add(r.num1, r.num2)
    ELSE IF r.operation = "subtract" THEN subtract(r.num1, r.num2)
    ELSE IF r.operation = "multiply" THEN multiply(r.num1, r.num2)
    ELSE IF r.operation = "divide" THEN divide(r.num1, r.num2)
    ELSE Raise(HTTPException(400, "Unsupported operation: " \o r.operation))

\* the if / elif chain of the try block: result is bound, or an exception leaves
Dispatch(i) ==
    /\ pc[i] = "validated"
    /\ LET r == request_of(i)
           o == Route(r)
       IN /\ branch' = [branch EXCEPT ![i] = BranchOf(r)]
          /\ IF o.raised
             THEN /\ exc' = [exc EXCEPT ![i] = o.exc]
                  /\ pc' = [pc EXCEPT ![i] = "raised"]
                  /\ UNCHANGED result
             ELSE /\ result' = [result EXCEPT ![i] = o.value]
                  /\ pc' = [pc EXCEPT ![i] = "computed"]
                  /\ UNCHANGED exc
    /\ UNCHANGED <<raw, request, resp>>

\* the return statement of the try block: the response object is built, which
\* fails when a field of it is no float
BuildResponse(i) ==
    /\ pc[i] = "computed"
    /\ LET r == request_of(i)
       IN IF IsFloat(r.num1) /\ IsFloat(r.num2) /\ IsFloat(result[i])
          THEN /\ resp' = [resp EXCEPT ![i] =
                      CalculationResponse(r.operation, r.num1, r.num2, result[i])]
               /\ pc' = [pc EXCEPT ![i] = "done"]
               /\ UNCHANGED exc
          ELSE /\ exc' = [exc EXCEPT ![i] =
                      ValidationError("validation error for CalculationResponse")]
               /\ pc' = [pc EXCEPT ![i] = "raised"]
               /\ UNCHANGED resp
    /\ UNCHANGED <<raw, request, branch, result>>

\* the except clauses with an HTTPException passed through as raised
Handler_passthrough(e) ==
    IF e.cls = "ZeroDivisionError" THEN HTTPException(400, StrOf(e))
    ELSE IF e.cls = "HTTPException" THEN e
    ELSE HTTPException(500, "An error occurred: " \o StrOf(e))

\* the except clauses: the HTTPException that leaves calculate for exception e
Handler(e) ==
    IF e.cls = "ZeroDivisionError" THEN HTTPException(400, StrOf(e))
    ELSE HTTPException(500, "An error occurred: " \o StrOf(e))

\* an except clause that runs the try block again
HandleException_retry(i) ==
    /\ pc[i] = "raised"
    /\ pc' = [pc EXCEPT ![i] = "validated"]
    /\ exc' = [exc EXCEPT ![i] = NoException]
    /\ UNCHANGED <<raw, request, branch, result, resp>>

\* the exception is caught, and the HTTPException raised in its place becomes
\* the response
HandleException(i) ==
    /\ pc[i] = "raised"
    /\ LET h == Handler(exc[i])
       IN resp' = [resp EXCEPT ![i] = ErrorResponse(h.status_code, h.detail)]
    /\ pc' = [pc EXCEPT ![i] = "done"]
    /\ UNCHANGED <<raw, request, branch, result, exc>>

\* the response is sent and the worker's frame is gone
Deliver(i) ==
    /\ pc[i] = "done"
    /\ pc' = [pc EXCEPT ![i] = "idle"]
    /\ raw' = [raw EXCEPT ![i] = NoRaw]
    /\ request' = [request EXCEPT ![i] = NoRequest]
    /\ branch' = [branch EXCEPT ![i] = "none"]
    /\ result' = [result EXCEPT ![i] = NoFloat]
    /\ exc' = [exc EXCEPT ![i] = NoException]
    /\ resp' = [resp EXCEPT ![i] = NoResponse]

\* the steps a worker takes once it holds a request
Step(i) ==
    \/ GetOperations(i)
    \/ Validate(i)
    \/ Dispatch(i)
    \/ BuildResponse(i)
    \/ HandleException(i)
    \/ Deliver(i)

(***************************************************************************)
(* The HTTP service with one worker, over every request.                    *)
(***************************************************************************)
Next ==
    \/ Receive(MainWorker, RawRequests)
    \/ GetOperations(MainWorker)
    \/ Validate(MainWorker)
    \/ Dispatch(MainWorker)
    \/ BuildResponse(MainWorker)
    \/ HandleException(MainWorker)
    \/ Deliver(MainWorker)

Spec == Init /\ [][Next]_vars

\* a worker that holds a request runs to its response: calculate is
\* synchronous and nothing in it waits
LiveSpec == Spec /\ WF_vars(Step(MainWorker))

(***************************************************************************)
(* The HTTP service with all its workers, over a sample of the requests.    *)
(***************************************************************************)
ConcOperands == {Fin(0, 0), Fin(0, One)}

ConcRequests ==
    { RawBody(op, a, b) : op \in OperationType, a \in ConcOperands, b \in ConcOperands }
    \cup {RawBody("modulo", Fin(0, One), Fin(0, One)),
          RawBody("add", NotANumber, Fin(0, One)),
          OperationsCall}

ConcNext ==
    \E i \in Workers :
        \/ Receive(i, ConcRequests)
        \/ GetOperations(i)
        \/ Validate(i)
        \/ Dispatch(i)
        \/ BuildResponse(i)
        \/ HandleException(i)
        \/ Deliver(i)

ConcSpec == Init /\ [][ConcNext]_vars

(***************************************************************************)
(* calculate called as a function, with request objects that validation     *)
(* would have refused: an operation outside OperationType, a str operand.   *)
(***************************************************************************)
DirectRequests ==
    { CalculationRequest(op, a, b) :
        op \in OperationType \cup {"modulo"},
        a \in Floats \cup {NotANumber},
        b \in Floats \cup {NotANumber} }

DirectNext ==
    \/ Call(MainWorker, DirectRequests)
    \/ Dispatch(MainWorker)
    \/ BuildResponse(MainWorker)
    \/ HandleException(MainWorker)
    \/ Deliver(MainWorker)

DirectSpec == Init /\ [][DirectNext]_vars

(***************************************************************************)
(* Properties.                                                              *)
(***************************************************************************)
\* the response of a request that is the only one the service ever handles
SoloResponse(r) ==
    IF r.route = "operations" THEN OperationsResponse
    ELSE IF ~Validates(r) THEN ValidationErrorResponse
    ELSE LET o == Route(CalculationRequest(r.operation, r.num1, r.num2))
             h == Handler(o.exc)
         IN IF o.raised THEN ErrorResponse(h.status_code, h.detail)
            ELSE CalculationResponse(r.operation, r.num1, r.num2, o.value)

\* worker i holds a validated division by a zero
DividesByZero(i) ==
    /\ request[i].operation = "divide"
    /\ PyEq(request[i].num2, Fin(0, 0))

\* C1: a validated divide request with num2 == 0 never has a quotient bound
\* to result and never a success response, whatever num1 is, and its
\* response is the error 400 "Cannot divide by zero".
C1_DivideByZero ==
    \A i \in Workers :
        DividesByZero(i) =>
            /\ result[i] = NoFloat
            /\ pc[i] # "computed"
            /\ resp[i].kind # "success"
            /\ pc[i] = "done" => resp[i] = ErrorResponse(400, "Cannot divide by zero")

C1_Witness ==
    /\ pc[MainWorker] = "done"
    /\ DividesByZero(MainWorker)
    /\ request[MainWorker].num2 = Fin(1, 0)
    /\ IsNaN(request[MainWorker].num1)
    /\ resp[MainWorker].status_code = 400

\* the result the behaviour table gives for a validated request
TableResult(op, a, b) ==
    IF op = "add" THEN FloatAdd(a, b)
    ELSE IF op = "subtract" THEN FloatSub(a, b)
    ELSE IF op = "multiply" THEN FloatMul(a, b)
    ELSE FloatDiv(a, b)

\* C2: a validated request other than a divide with num2 == 0 is answered
\* with status 200, operation, num1 and num2 echoed unchanged, and result
\* num1 + num2, num1 - num2, num1 * num2 or num1 / num2.
C2_Success ==
    \A i \in Workers :
        LET r == raw[i]
        IN (/\ pc[i] = "done"
            /\ r.route = "calculate"
            /\ Validates(r)
            /\ ~(r.operation = "divide" /\ PyEq(r.num2, Fin(0, 0))))
           => resp[i] = [kind |-> "success", status_code |-> 200,
                         operation |-> r.operation, num1 |-> r.num1, num2 |-> r.num2,
                         result |-> TableResult(r.operation, r.num1, r.num2),
                         detail |-> "", entries |-> NoEntries]

C2_Witness ==
    /\ pc[MainWorker] = "done"
    /\ raw[MainWorker] = RawBody("divide", Fin(0, One), Fin(1, 3 * One))
    /\ resp[MainWorker].status_code = 200
    /\ resp[MainWorker].result \notin {Fin(0, 0), Fin(1, 0), NaN, NoFloat}

\* C3: a body whose operation is none of the four literals, or that lacks a
\* numeric num1 or num2, is answered with 422 and never reaches the dispatch;
\* wherever the dispatch runs or has run, the operation is one of the four
\* kinds and the fallback branch is not taken.
C3_ValidationGuardsDispatch ==
    \A i \in Workers :
        /\ (raw[i].route = "calculate" /\ ~Validates(raw[i])) =>
              /\ pc[i] \in {"received", "done"}
              /\ request[i] = NoRequest
              /\ branch[i] = "none"
              /\ pc[i] = "done" => resp[i].status_code = 422
        /\ pc[i] \in {"validated", "computed", "raised"} =>
              request[i].operation \in OperationType
        /\ branch[i] \in OperationType \cup {"none"}

C3_Witness ==
    /\ pc[MainWorker] = "done"
    /\ raw[MainWorker].operation = "modulo"
    /\ raw[MainWorker].num1 \in Floats
    /\ raw[MainWorker].num2 \in Floats
    /\ resp[MainWorker].status_code = 422

\* the state of worker i
Frame(i) == <<pc[i], raw[i], request[i], branch[i], result[i], exc[i], resp[i]>>

\* C4: every POST /calculate request that is received gets its response; the
\* response is a success or an error, and an error carries no result; once
\* produced it is not replaced; an exception is not retried, it leads to the
\* response.
C4_OneTerminalState ==
    /\ [](\A i \in Workers :
            (pc[i] = "done" /\ raw[i].route = "calculate") =>
                /\ resp[i].kind \in {"success", "error"}
                /\ resp[i].kind = "error" =>
                      resp[i].result = NoFloat /\ resp[i].status_code # 200
                /\ resp[i].kind = "success" => exc[i] = NoException)
    /\ [][\A i \in Workers :
            /\ pc[i] = "raised" => pc'[i] \in {"raised", "done"}
            /\ pc[i] = "done" => pc'[i] \in {"done", "idle"}
            /\ resp[i] # NoResponse => (resp'[i] = resp[i] \/ pc'[i] = "idle")]_vars
    /\ \A i \in Workers :
            (pc[i] = "received" /\ raw[i].route = "calculate") ~> (pc[i] = "done")

C4_Witness ==
    /\ pc[MainWorker] = "done"
    /\ raw[MainWorker].route = "calculate"
    /\ exc[MainWorker].cls = "ZeroDivisionError"
    /\ resp[MainWorker].kind = "error"

\* C5: an exception raised in calculate that is no ZeroDivisionError leaves
\* it as the error 500 "An error occurred: <message>", with the exception's
\* message; every exception raised ends in an error response.
C5_OtherFaults ==
    \A i \in Workers :
        (pc[i] = "done" /\ exc[i] # NoException) =>
            /\ resp[i].kind = "error"
            /\ exc[i].cls # "ZeroDivisionError" =>
                  resp[i] = ErrorResponse(500, "An error occurred: " \o StrOf(exc[i]))

C5_Witness ==
    /\ pc[MainWorker] = "done"
    /\ exc[MainWorker].cls = "TypeError"
    /\ resp[MainWorker].status_code = 500

\* C6: whatever the other workers do meanwhile, and whatever was handled
\* before, a request's response is the one it gets when it is the only
\* request; a step of one worker changes no other worker's state.
C6_Independent ==
    /\ [](\A i \in Workers : pc[i] = "done" => resp[i] = SoloResponse(raw[i]))
    /\ [][\A i, j \in Workers :
            (i # j /\ Frame(i)' # Frame(i)) => Frame(j)' = Frame(j)]_vars

C6_Witness ==
    /\ pc[1] = "done"
    /\ pc[2] = "computed"
    /\ raw[1] = RawBody("divide", Fin(0, One), Fin(0, 0))
    /\ raw[2] = RawBody("divide", Fin(0, 0), Fin(0, One))

\* worker i has just bound the result of operation op
Computed(i, op) == pc[i] = "computed" /\ branch[i] = op

Close(x, a) ==
    \/ PyEq(x, a)
    \/ /\ IsFinite(x)
       /\ IsFinite(a)
       /\ Abs(Signed(x) - Signed(a)) * Pow2(PrecBits - 1) <= a.m

\* the exact product of finite a and b is zero or a normal number in range
ProductInRange(a, b) ==
    \/ a.m * b.m = 0
    \/ /\ a.m * b.m >= MinNormal * One
       /\ IsFinite(FloatMul(a, b))

\* C8 as stated, read on finite operands alone: for all a and all b != 0,
\* dividing multiply(a, b) by b raises nothing and returns a within
\* floating-point tolerance.
C8_Original ==
    \A i \in Workers :
        LET a == request[i].num1
            b == request[i].num2
            d == divide(result[i], b)
        IN (/\ Computed(i, "multiply")
            /\ IsFinite(a)
            /\ IsFinite(b)
            /\ ~PyEq(b, Fin(0, 0)))
           => ~d.raised /\ Close(d.value, a)

\* C8, amended: the division never raises; it returns a within tolerance
\* when a and b are finite and a * b neither overflows nor underflows.
C8_RoundTrip ==
    \A i \in Workers :
        LET a == request[i].num1
            b == request[i].num2
            d == divide(result[i], b)
        IN (Computed(i, "multiply") /\ ~PyEq(b, Fin(0, 0))) =>
               /\ ~d.raised
               /\ (IsFinite(a) /\ IsFinite(b) /\ ProductInRange(a, b)) =>
                     Close(d.value, a)

C8_Witness ==
    /\ Computed(MainWorker, "multiply")
    /\ request[MainWorker].num1 = Fin(0, (3 * One) \div 2)
    /\ request[MainWorker].num2 = Fin(1, (3 * One) \div 2)
    /\ ProductInRange(request[MainWorker].num1, request[MainWorker].num2)
    /\ result[MainWorker] # Fin(1, (9 * One) \div 4)

\* the operation literals that validation accepts
AcceptedOperations ==
    { op \in RawOperations : Validates(RawBody(op, Fin(0, 0), Fin(0, 0))) }

\* C9: the response of GET /operations has exactly 4 entries, whose names
\* are the operations that validation accepts, each once.
C9_OperationsListing ==
    \A i \in Workers :
        resp[i].kind = "operations" =>
            LET e == resp[i].entries
                names == { e[n].operation : n \in 1..Len(e) }
            IN /\ Len(e) = 4
               /\ names = AcceptedOperations
               /\ names = OperationType
               /\ Cardinality(names) = Len(e)

C9_Witness ==
    /\ pc[MainWorker] = "done"
    /\ raw[MainWorker] = OperationsCall
    /\ resp[MainWorker].kind = "operations"

\* C10: when the dispatch takes the fallback branch, the caller receives
\* the error 400 "Unsupported operation: <operation>".
C10_FallbackIs400 ==
    \A i \in Workers :
        (pc[i] = "done" /\ branch[i] = "fallback") =>
            resp[i] = ErrorResponse(400, "Unsupported operation: " \o request[i].operation)

=============================================================================
